---------------------------- MODULE Spec2Model ----------------------------
(***************************************************************************)
(* A model of server/pdf_converter.py: the HTTP handler                    *)
(* PDFConverterHandler (do_POST, process_pdf, create_zip_package) and the  *)
(* command-line helper extract_text_from_pdf.                              *)
(*                                                                         *)
(* Strings whose characters matter (file names, page texts) are tuples of  *)
(* one-character strings.  Values whose Python type matters (JSON values,  *)
(* extracted texts) are records tagged with their type.                    *)
(***************************************************************************)
EXTENDS Integers, Sequences, FiniteSets, TLC

(***************************************************************************)
(* Bounds of the model.                                                    *)
(***************************************************************************)
MaxPages == 2
MaxFiles == 3
MaxEntries == 2
MaxParts == 3

SeqsUpTo(S, n) == UNION {[1..k -> S] : k \in 0..n}

(***************************************************************************)
(* Character strings.                                                      *)
(***************************************************************************)
DotPdf == <<".", "p", "d", "f">>
DotJson == <<".", "j", "s", "o", "n">>
Whitespace == {" ", "\n", "\t"}

\* s[i..] starts with pat
StartsAt(s, i, pat) ==
    /\ i + Len(pat) - 1 <= Len(s)
    /\ \A k \in 1..Len(pat) : s[i + k - 1] = pat[k]

\* Python's `pat in s` for two strings
Contains(s, pat) == \E i \in 1..(Len(s) + 1) : StartsAt(s, i, pat)

\* len(text.split()): the number of maximal runs of non-whitespace characters
SplitLen(s) ==
    Cardinality({i \in 1..Len(s) :
        /\ s[i] \notin Whitespace
        /\ (i = 1 \/ s[i - 1] \in Whitespace)})

(***************************************************************************)
(* What the PDF library gives for an uploaded file: PdfReader raises on a  *)
(* corrupt file; otherwise the document has pages, and page.extract_text() *)
(* returns a string, returns None, or raises.                              *)
(***************************************************************************)
NoneText == [k |-> "none"]
StrText(s) == [k |-> "str", s |-> s]
RaiseText == [k |-> "raise"]
PageTexts ==
    {NoneText, RaiseText, StrText(<<>>), StrText(<<" ">>),
     StrText(<<"a", " ", "b", " ", "c">>)}
CorruptDoc == [k |-> "corrupt"]
PdfDoc(ps) == [k |-> "pdf", pages |-> ps]
Docs == {CorruptDoc} \cup {PdfDoc(ps) : ps \in SeqsUpTo(PageTexts, MaxPages)}

\* How the filesystem behaves during one conversion call.
IoKinds == {"ok", "createFail", "writeFail", "unlinkFail"}

APdf == <<"a">> \o DotPdf
BTxt == <<"b">>
FileNames == {<<>>, APdf, BTxt}

\* Python truthiness of an extracted text: None and '' are false
Truthy(text) == text.k = "str" /\ Len(text.s) > 0

\* The page record of lines 162-167 with the 0-based index as the page number.
PageRecordZeroBased(i, text) ==
    [page_number |-> i,
     content |-> text,
     word_count |-> IF Truthy(text) THEN SplitLen(text.s) ELSE 0,
     character_count |-> IF Truthy(text) THEN Len(text.s) ELSE 0]

\* process_pdf, lines 162-167: the record of the page at 0-based index i
PageRecord(i, text) ==
    [page_number |-> i + 1,
     content |-> text,
     word_count |-> IF Truthy(text) THEN SplitLen(text.s) ELSE 0,
     character_count |-> IF Truthy(text) THEN Len(text.s) ELSE 0]

\* extract_text_from_pdf, lines 237-242: the same record, built by the CLI helper
CliPageRecord(i, text) ==
    [page_number |-> i + 1,
     content |-> text,
     word_count |-> IF Truthy(text) THEN SplitLen(text.s) ELSE 0,
     character_count |-> IF Truthy(text) THEN Len(text.s) ELSE 0]

\* lines 170-180
SuccessOutcome(filename, pages) ==
    [filename |-> filename,
     success |-> TRUE,
     data |-> [filename |-> filename, total_pages |-> Len(pages), pages |-> pages]]

\* lines 183-187 and 89-93
FailureOutcome(filename, msg) ==
    [filename |-> filename, success |-> FALSE, error |-> msg]


(***************************************************************************)
(* State.                                                                  *)
(***************************************************************************)
VARIABLES
    request,    \* the request being handled: command, path, headers, body
    pc,         \* position of the handler (do_POST), or the direct caller
    files,      \* do_POST: the list under form['files[]']
    idx,        \* do_POST: 1-based position of the loop over files
    results,    \* do_POST: results
    payload,    \* do_POST: the parsed JSON body
    response,   \* what was sent to the client (status 0: nothing sent)
    uncaught,   \* the exception that left the handler, "none" if none
    arg,        \* process_pdf / extract_text_from_pdf: the file at hand
    ppc,        \* position inside process_pdf / extract_text_from_pdf
    pages,      \* pages
    ret,        \* the value being returned
    raised,     \* the message of the exception leaving the function
    temp_pdf_path, \* the name of this call's temporary file (temp_pdf.name), 0 if none
    tmpFiles,   \* the temporary files that exist on disk
    ncalls,     \* how many temporary files were created so far
    json_data_list, \* create_zip_package: its argument
    zpc,        \* position inside create_zip_package
    zi,         \* 1-based position of the loop over json_data_list
    filelist,   \* the archive: members in the order written (name, content)
    NameToInfo, \* the archive: member name -> index in filelist of its entry
    zraised     \* the exception leaving create_zip_package, "none" if none

hvars == <<request, pc, files, idx, results, payload, response, uncaught>>
pvars == <<arg, ppc, pages, ret, raised, temp_pdf_path, tmpFiles, ncalls>>
zvars == <<json_data_list, zpc, zi, filelist, NameToInfo, zraised>>
vars == <<request, pc, files, idx, results, payload, response, uncaught,
          arg, ppc, pages, ret, raised, temp_pdf_path, tmpFiles, ncalls,
          json_data_list, zpc, zi, filelist, NameToInfo, zraised>>

NoFile == [filename |-> <<>>, io |-> "ok", doc |-> CorruptDoc]
NoResponse == [status |-> 0, headers |-> {}, body |-> [k |-> "none"]]
NoRequest == [command |-> "none", path |-> "none", ctype |-> <<>>,
              length |-> FALSE, body |-> [k |-> "none"]]
NullJson == [t |-> "null"]

HandlerIdle ==
    /\ request = NoRequest /\ files = <<>> /\ idx = 0 /\ results = <<>>
    /\ payload = NullJson /\ response = NoResponse /\ uncaught = "none"
ConvertIdle ==
    /\ arg = NoFile /\ ppc = "idle" /\ pages = <<>> /\ ret = <<>>
    /\ raised = "none" /\ temp_pdf_path = 0 /\ tmpFiles = {} /\ ncalls = 0
ZipIdle ==
    /\ json_data_list = NullJson /\ zpc = "idle" /\ zi = 0 /\ filelist = <<>>
    /\ NameToInfo = <<>> /\ zraised = "none"

(***************************************************************************)
(* process_pdf(file_data, filename), one action per step.  arg.doc is what *)
(* the PDF library makes of file_data, arg.io how the filesystem behaves.  *)
(***************************************************************************)

\* lines 151: NamedTemporaryFile(suffix='.pdf', delete=False)
PP_Create ==
    /\ ppc = "create"
    /\ IF arg.io = "createFail"
       THEN /\ ppc' = "raised"
            /\ raised' = "create"
            /\ UNCHANGED <<temp_pdf_path, tmpFiles, ncalls>>
       ELSE /\ ncalls' = ncalls + 1
            /\ temp_pdf_path' = ncalls + 1
            /\ tmpFiles' = tmpFiles \cup {ncalls + 1}
            /\ ppc' = "write"
            /\ UNCHANGED raised
    /\ UNCHANGED <<arg, pages, ret>>
    /\ UNCHANGED <<hvars, zvars>>

\* lines 152-153: temp_pdf.write(file_data); leaving the with block closes the
\* file and, as delete=False, keeps it on disk, also when write raised
PP_Write ==
    /\ ppc = "write"
    /\ IF arg.io = "writeFail"
       THEN ppc' = "raised" /\ raised' = "write"
       ELSE ppc' = "open" /\ UNCHANGED raised
    /\ UNCHANGED <<arg, pages, ret, temp_pdf_path, tmpFiles, ncalls>>
    /\ UNCHANGED <<hvars, zvars>>

\* lines 157-158 (and 182-187 when PdfReader raises)
PP_Open ==
    /\ ppc = "open"
    /\ IF arg.doc.k = "corrupt"
       THEN /\ ret' = FailureOutcome(arg.filename, "corrupt")
            /\ ppc' = "finally"
            /\ UNCHANGED pages
       ELSE /\ pages' = <<>>
            /\ ppc' = "extract"
            /\ UNCHANGED ret
    /\ UNCHANGED <<arg, raised, temp_pdf_path, tmpFiles, ncalls>>
    /\ UNCHANGED <<hvars, zvars>>

\* lines 160-167: one iteration of the loop over pdf.pages
PP_Extract ==
    /\ ppc = "extract"
    /\ Len(pages) < Len(arg.doc.pages)
    /\ LET i == Len(pages)
           text == arg.doc.pages[i + 1]
       IN IF text.k = "raise"
          THEN /\ ret' = FailureOutcome(arg.filename, "extract")
               /\ ppc' = "finally"
               /\ UNCHANGED pages
          ELSE /\ pages' = Append(pages, PageRecord(i, text))
               /\ UNCHANGED <<ret, ppc>>
    /\ UNCHANGED <<arg, raised, temp_pdf_path, tmpFiles, ncalls>>
    /\ UNCHANGED <<hvars, zvars>>

\* lines 170-180: the loop is over, the success record is the return value
PP_Build ==
    /\ ppc = "extract"
    /\ Len(pages) = Len(arg.doc.pages)
    /\ ret' = SuccessOutcome(arg.filename, pages)
    /\ ppc' = "finally"
    /\ UNCHANGED <<arg, pages, raised, temp_pdf_path, tmpFiles, ncalls>>
    /\ UNCHANGED <<hvars, zvars>>

\* lines 189-194: os.unlink(temp_pdf_path), its failure swallowed; then return
PP_Finally ==
    /\ ppc = "finally"
    /\ tmpFiles' = IF arg.io = "unlinkFail" THEN tmpFiles ELSE tmpFiles \ {temp_pdf_path}
    /\ ppc' = "returned"
    /\ UNCHANGED <<arg, pages, ret, raised, temp_pdf_path, ncalls>>
    /\ UNCHANGED <<hvars, zvars>>

ProcessPdf == PP_Create \/ PP_Write \/ PP_Open \/ PP_Extract \/ PP_Build \/ PP_Finally

(***************************************************************************)
(* extract_text_from_pdf(pdf_path), the command-line helper.               *)
(***************************************************************************)

\* lines 231-233 (and 245-246 when PdfReader raises)
X_Open ==
    /\ ppc = "x_open"
    /\ IF arg.doc.k = "corrupt"
       THEN ppc' = "x_raised" /\ raised' = "Error extracting text from PDF: corrupt"
       ELSE ppc' = "x_extract" /\ UNCHANGED raised
    /\ pages' = <<>>
    /\ UNCHANGED <<arg, ret, temp_pdf_path, tmpFiles, ncalls>>
    /\ UNCHANGED <<hvars, zvars>>

\* lines 235-242 (and 245-246 when extract_text raises)
X_Extract ==
    /\ ppc = "x_extract"
    /\ Len(pages) < Len(arg.doc.pages)
    /\ LET i == Len(pages)
           text == arg.doc.pages[i + 1]
       IN IF text.k = "raise"
          THEN /\ ppc' = "x_raised"
               /\ raised' = "Error extracting text from PDF: extract"
               /\ UNCHANGED pages
          ELSE /\ pages' = Append(pages, CliPageRecord(i, text))
               /\ UNCHANGED <<ppc, raised>>
    /\ UNCHANGED <<arg, ret, temp_pdf_path, tmpFiles, ncalls>>
    /\ UNCHANGED <<hvars, zvars>>

\* line 244: return pages
X_Return ==
    /\ ppc = "x_extract"
    /\ Len(pages) = Len(arg.doc.pages)
    /\ ret' = pages
    /\ ppc' = "x_returned"
    /\ UNCHANGED <<arg, pages, raised, temp_pdf_path, tmpFiles, ncalls>>
    /\ UNCHANGED <<hvars, zvars>>

ExtractTextFromPdf == X_Open \/ X_Extract \/ X_Return

(***************************************************************************)
(* Conversion called directly: every file name, filesystem behaviour and   *)
(* document, through process_pdf or extract_text_from_pdf.                 *)
(***************************************************************************)
ConvertInputs == [filename : FileNames, io : IoKinds, doc : Docs]

InitConvert ==
    /\ HandlerIdle /\ ZipIdle
    /\ pc = "direct"
    /\ arg \in ConvertInputs
    /\ ppc \in {"create", "x_open"}
    /\ pages = <<>> /\ ret = <<>> /\ raised = "none"
    /\ temp_pdf_path = 0 /\ tmpFiles = {} /\ ncalls = 0

NextConvert == ProcessPdf \/ ExtractTextFromPdf

SpecConvert == InitConvert /\ [][NextConvert]_vars


(***************************************************************************)
(* JSON values as json.loads gives them: tagged by Python type.  An object *)
(* is the sequence of its <<key, value>> pairs in insertion order.         *)
(***************************************************************************)
JNum(n) == [t |-> "num", v |-> n]
JStr(s) == [t |-> "str", v |-> s]
JArr(xs) == [t |-> "arr", v |-> xs]
JObj(ps) == [t |-> "obj", v |-> ps]

KFilename == <<"f", "i", "l", "e", "n", "a", "m", "e">>
KData == <<"d", "a", "t", "a">>
KAction == <<"a", "c", "t", "i", "o", "n">>
KJsonData == <<"j", "s", "o", "n", "_", "d", "a", "t", "a">>
DownloadAll == <<"d", "o", "w", "n", "l", "o", "a", "d", "_", "a", "l", "l">>

PyOk(v) == [ok |-> TRUE, v |-> v]
PyRaise(e) == [ok |-> FALSE, exc |-> e]

\* Python's `key in x` for a str key: dict keys, list elements, substring of a
\* str; None and numbers are not iterable
PyIn(key, x) ==
    CASE x.t = "obj" -> PyOk(\E i \in 1..Len(x.v) : x.v[i][1] = key)
      [] x.t = "arr" ->
            PyOk(\E i \in 1..Len(x.v) : x.v[i].t = "str" /\ x.v[i].v = key)
      [] x.t = "str" -> PyOk(Contains(x.v, key))
      [] OTHER -> PyRaise("TypeError")

\* Python's x[key] for a str key that `key in x` found: the value of a dict
\* key (the last pair wins); a str or a list takes integer indices only
PyGetItem(x, key) ==
    IF x.t = "obj"
    THEN LET hits == {i \in 1..Len(x.v) : x.v[i][1] = key}
         IN PyOk(x.v[CHOOSE i \in hits : \A j \in hits : j <= i][2])
    ELSE PyRaise("TypeError")

\* payload.get('json_data', [])
PyGet(x, key, default) ==
    IF PyIn(key, x).v THEN PyGetItem(x, key).v ELSE default

\* Python's iteration `for item in x`: list elements, dict keys, characters of
\* a str; None and numbers raise
PyIter(x) ==
    CASE x.t = "arr" -> PyOk(x.v)
      [] x.t = "obj" -> PyOk([i \in 1..Len(x.v) |-> JStr(x.v[i][1])])
      [] x.t = "str" -> PyOk([i \in 1..Len(x.v) |-> JStr(<<x.v[i]>>)])
      [] OTHER -> PyRaise("TypeError")

(***************************************************************************)
(* json.dumps(value, indent=2) as the sequence of its tokens.  A "nl"      *)
(* token is a line break followed by n spaces.                             *)
(***************************************************************************)
Tok(k) == [tk |-> k]
NlTok(n) == [tk |-> "nl", n |-> n]

RECURSIVE Dumps(_, _)
RECURSIVE DumpItems(_, _, _)
RECURSIVE DumpPairs(_, _, _)

DumpItems(xs, i, level) ==
    IF i > Len(xs) THEN <<>>
    ELSE <<NlTok(2 * level)>> \o Dumps(xs[i], level)
         \o (IF i < Len(xs) THEN <<Tok(",")>> ELSE <<>>)
         \o DumpItems(xs, i + 1, level)

DumpPairs(ps, i, level) ==
    IF i > Len(ps) THEN <<>>
    ELSE <<NlTok(2 * level), [tk |-> "str", s |-> ps[i][1]], Tok(":")>>
         \o Dumps(ps[i][2], level)
         \o (IF i < Len(ps) THEN <<Tok(",")>> ELSE <<>>)
         \o DumpPairs(ps, i + 1, level)

Dumps(v, level) ==
    CASE v.t = "null" -> <<Tok("null")>>
      [] v.t = "num" -> <<[tk |-> "num", n |-> v.v]>>
      [] v.t = "str" -> <<[tk |-> "str", s |-> v.v]>>
      [] v.t = "arr" ->
            IF v.v = <<>> THEN <<Tok("["), Tok("]")>>
            ELSE <<Tok("[")>> \o DumpItems(v.v, 1, level + 1)
                 \o <<NlTok(2 * level), Tok("]")>>
      [] v.t = "obj" ->
            IF v.v = <<>> THEN <<Tok("{"), Tok("}")>>
            ELSE <<Tok("{")>> \o DumpPairs(v.v, 1, level + 1)
                 \o <<NlTok(2 * level), Tok("}")>>

(***************************************************************************)
(* create_zip_package(json_data_list).                                     *)
(***************************************************************************)

\* Python's s.replace(old, new) from position i on: every occurrence, left to
\* right, without overlap
RECURSIVE ReplaceFrom(_, _, _, _)
ReplaceFrom(s, i, old, new) ==
    IF i > Len(s) THEN <<>>
    ELSE IF StartsAt(s, i, old)
         THEN new \o ReplaceFrom(s, i + Len(old), old, new)
         ELSE <<s[i]>> \o ReplaceFrom(s, i + 1, old, new)

\* A suffix-aware renaming: the extension replaced by .json, .json added when
\* the name does not end in .pdf.
MemberNameBySuffix(filename) ==
    IF Len(filename) >= Len(DotPdf)
       /\ StartsAt(filename, Len(filename) - Len(DotPdf) + 1, DotPdf)
    THEN SubSeq(filename, 1, Len(filename) - Len(DotPdf)) \o DotJson
    ELSE filename \o DotJson

\* line 212: item['filename'].replace('.pdf', '.json')
MemberName(filename) == ReplaceFrom(filename, 1, DotPdf, DotJson)

\* line 211: 'filename' in item and 'data' in item ("and" evaluates its
\* second operand only when the first is true)
HasBoth(item) ==
    LET f == PyIn(KFilename, item)
    IN IF ~f.ok THEN f
       ELSE IF ~f.v THEN PyOk(FALSE)
       ELSE PyIn(KData, item)

\* lines 207-210: the archive is opened and the iteration starts
Zip_Open ==
    /\ zpc = "open"
    /\ IF PyIter(json_data_list).ok
       THEN zpc' = "loop" /\ zi' = 1 /\ UNCHANGED zraised
       ELSE zpc' = "raised" /\ zraised' = PyIter(json_data_list).exc /\ UNCHANGED zi
    /\ filelist' = <<>>
    /\ NameToInfo' = <<>>
    /\ UNCHANGED json_data_list
    /\ UNCHANGED <<hvars, pvars>>

\* lines 210-214: one iteration.  zipf.writestr appends the member and makes
\* its name refer to it.
Zip_Item ==
    /\ zpc = "loop"
    /\ zi <= Len(PyIter(json_data_list).v)
    /\ LET item == PyIter(json_data_list).v[zi]
           both == HasBoth(item)
           fn == PyGetItem(item, KFilename)
       IN IF ~both.ok
          THEN /\ zpc' = "raised" /\ zraised' = both.exc
               /\ UNCHANGED <<zi, filelist, NameToInfo>>
          ELSE IF ~both.v
          THEN /\ zi' = zi + 1
               /\ UNCHANGED <<zpc, zraised, filelist, NameToInfo>>
          ELSE IF ~fn.ok
          THEN /\ zpc' = "raised" /\ zraised' = fn.exc
               /\ UNCHANGED <<zi, filelist, NameToInfo>>
          ELSE IF fn.v.t # "str"
          THEN /\ zpc' = "raised" /\ zraised' = "AttributeError"
               /\ UNCHANGED <<zi, filelist, NameToInfo>>
          ELSE LET filename == MemberName(fn.v.v)
                   json_content == Dumps(PyGetItem(item, KData).v, 0)
               IN /\ filelist' = Append(filelist,
                        [name |-> filename, content |-> json_content])
                  /\ NameToInfo' =
                        [n \in (DOMAIN NameToInfo) \cup {filename} |->
                            IF n = filename THEN Len(filelist) + 1
                            ELSE NameToInfo[n]]
                  /\ zi' = zi + 1
                  /\ UNCHANGED <<zpc, zraised>>
    /\ UNCHANGED json_data_list
    /\ UNCHANGED <<hvars, pvars>>

\* lines 216-218: the loop is over, the buffer is returned
Zip_Return ==
    /\ zpc = "loop"
    /\ zi > Len(PyIter(json_data_list).v)
    /\ zpc' = "returned"
    /\ UNCHANGED <<json_data_list, zi, filelist, NameToInfo, zraised>>
    /\ UNCHANGED <<hvars, pvars>>

CreateZipPackage == Zip_Open \/ Zip_Item \/ Zip_Return


(***************************************************************************)
(* The packager called directly.                                           *)
(***************************************************************************)
KTotalPages == <<"t", "o", "t", "a", "l", "_", "p", "a", "g", "e", "s">>
KPages == <<"p", "a", "g", "e", "s">>
KPageNumber == <<"p", "a", "g", "e", "_", "n", "u", "m", "b", "e", "r">>
KContent == <<"c", "o", "n", "t", "e", "n", "t">>

\* Two conversion results as the client sends them back in json_data.
DataEmpty == JObj(<< <<KTotalPages, JNum(0)>>, <<KPages, JArr(<<>>)>> >>)
DataOnePage ==
    JObj(<< <<KTotalPages, JNum(1)>>,
            <<KPages, JArr(<< JObj(<< <<KPageNumber, JNum(1)>>,
                                      <<KContent, JStr(<<"a", " ", "b">>)>> >>) >>)>> >>)
DataValues == {DataEmpty, DataOnePage}

AJson == <<"a">> \o DotJson
EntryNames == {APdf, BTxt, AJson}

\* The entries of json_data: objects with both keys, with one, with none, with
\* a filename that is no string, and values that are no objects.
Entry(n, d) == JObj(<< <<KFilename, JStr(n)>>, <<KData, d>> >>)
Entries ==
    {Entry(n, d) : n \in EntryNames, d \in DataValues}
    \cup {JObj(<< <<KFilename, JStr(n)>> >>) : n \in EntryNames}
    \cup {JObj(<< <<KData, d>> >>) : d \in DataValues}
    \cup {JObj(<<>>), NullJson,
          JObj(<< <<KFilename, JNum(5)>>, <<KData, DataEmpty>> >>)}
EntryLists == SeqsUpTo(Entries, MaxEntries)

\* File names made of up to MaxParts pieces: single characters, whole
\* extensions.
NameParts ==
    {<<"r">>, <<".">>, <<"p">>, <<"d">>, <<"f">>, DotPdf, DotJson,
     <<".", "P", "D", "F">>}
RECURSIVE Concat(_)
Concat(ss) == IF ss = <<>> THEN <<>> ELSE Head(ss) \o Concat(Tail(ss))
Names == {Concat(ps) : ps \in SeqsUpTo(NameParts, MaxParts)}

PackageInputs ==
    {JArr(es) : es \in EntryLists}
    \cup {JArr(<<Entry(n, DataOnePage)>>) : n \in Names}

InitPackage ==
    /\ HandlerIdle /\ ConvertIdle
    /\ pc = "direct"
    /\ json_data_list \in PackageInputs
    /\ zpc = "open"
    /\ zi = 0 /\ filelist = <<>> /\ NameToInfo = <<>> /\ zraised = "none"

NextPackage == CreateZipPackage

SpecPackage == InitPackage /\ [][NextPackage]_vars

(***************************************************************************)
(* The handler.                                                            *)
(***************************************************************************)
JsonHeaders ==
    {<<"Content-Type", "application/json">>, <<"Access-Control-Allow-Origin", "*">>}
PreflightHeaders ==
    {<<"Access-Control-Allow-Origin", "*">>,
     <<"Access-Control-Allow-Methods", "POST, OPTIONS">>,
     <<"Access-Control-Allow-Headers", "Content-Type">>}

\* lines 127-132
PreflightResponse ==
    [status |-> 200, headers |-> PreflightHeaders, body |-> [k |-> "empty"]]
\* lines 135-137
NotFoundResponse ==
    [status |-> 404, headers |-> {}, body |-> [k |-> "text", v |-> "Not Found"]]
\* http.server answers a command the handler class has no do_ method for
\* (the headers and the HTML of its error page are left out)
UnsupportedResponse ==
    [status |-> 501, headers |-> {}, body |-> [k |-> "text", v |-> "Unsupported method"]]

\* cgi.parse_header: the value before the first ';' (the header is given as
\* its ';'-separated pieces)
ParseHeader(h) == h[1]
\* cgi.FieldStorage needs the boundary parameter of a multipart content type
HasBoundary(h) == \E i \in 2..Len(h) : h[i] = "boundary=X"

\* The class defines do_GET and do_POST (lines 52, 59) and no other do_
\* method: http.server calls do_POST for POST; OPTIONS, PUT, ... get 501.
Dispatch ==
    /\ pc = "recv"
    /\ IF request.command = "POST"
       THEN pc' = "post" /\ UNCHANGED response
       ELSE pc' = "done" /\ response' = UnsupportedResponse
    /\ UNCHANGED <<request, files, idx, results, payload, uncaught>>
    /\ UNCHANGED <<pvars, zvars>>

\* lines 61-64, 103, 126-132: the branch taken.  self.headers[...] is None
\* for a missing header, which cgi.parse_header cannot take.
Post_Route ==
    /\ pc = "post"
    /\ IF request.path = "/convert"
       THEN IF request.ctype = <<>>
            THEN pc' = "done" /\ uncaught' = "TypeError" /\ UNCHANGED response
            ELSE /\ pc' = CASE ParseHeader(request.ctype) = "multipart/form-data" -> "form"
                            [] ParseHeader(request.ctype) = "application/json" -> "json"
                            [] OTHER -> "default"
                 /\ UNCHANGED <<uncaught, response>>
       ELSE IF request.path = "/convert" /\ request.command = "OPTIONS"
            THEN pc' = "done" /\ response' = PreflightResponse /\ UNCHANGED uncaught
            ELSE pc' = "default" /\ UNCHANGED <<uncaught, response>>
    /\ UNCHANGED <<request, files, idx, results, payload>>
    /\ UNCHANGED <<pvars, zvars>>

\* lines 65-77: the form is parsed; files is the list under 'files[]'
Post_Form ==
    /\ pc = "form"
    /\ IF ~HasBoundary(request.ctype)
       THEN /\ pc' = "done" /\ uncaught' = "ValueError"
            /\ UNCHANGED <<files, idx, results>>
       ELSE /\ files' = IF request.body.k = "form" THEN request.body.files ELSE <<>>
            /\ results' = <<>>
            /\ idx' = 1
            /\ pc' = "loop"
            /\ UNCHANGED uncaught
    /\ UNCHANGED <<request, payload, response>>
    /\ UNCHANGED <<pvars, zvars>>

\* lines 79-86: the next file part; one with a filename is read and handed
\* to process_pdf
Post_Next ==
    /\ pc = "loop"
    /\ idx <= Len(files)
    /\ IF files[idx].filename # <<>>
       THEN /\ pc' = "inproc"
            /\ arg' = files[idx]
            /\ ppc' = "create"
            /\ pages' = <<>> /\ ret' = <<>> /\ raised' = "none" /\ temp_pdf_path' = 0
            /\ UNCHANGED idx
       ELSE /\ idx' = idx + 1
            /\ UNCHANGED <<pc, arg, ppc, pages, ret, raised, temp_pdf_path>>
    /\ UNCHANGED <<request, files, results, payload, response, uncaught>>
    /\ UNCHANGED <<tmpFiles, ncalls>>
    /\ UNCHANGED zvars

\* The except clause left out: the exception leaves the handler.
Post_ExceptPropagates ==
    /\ pc = "inproc"
    /\ ppc = "raised"
    /\ pc' = "done"
    /\ uncaught' = raised
    /\ ppc' = "idle"
    /\ UNCHANGED <<request, files, idx, results, payload, response>>
    /\ UNCHANGED <<arg, pages, ret, raised, temp_pdf_path, tmpFiles, ncalls>>
    /\ UNCHANGED zvars

\* lines 86-87: process_pdf returned
Post_Append ==
    /\ pc = "inproc"
    /\ ppc = "returned"
    /\ results' = Append(results, ret)
    /\ idx' = idx + 1
    /\ pc' = "loop"
    /\ ppc' = "idle"
    /\ UNCHANGED <<request, files, payload, response, uncaught>>
    /\ UNCHANGED <<arg, pages, ret, raised, temp_pdf_path, tmpFiles, ncalls>>
    /\ UNCHANGED zvars

\* lines 88-93: process_pdf raised
Post_Except ==
    /\ pc = "inproc"
    /\ ppc = "raised"
    /\ results' = Append(results, FailureOutcome(files[idx].filename, raised))
    /\ idx' = idx + 1
    /\ pc' = "loop"
    /\ ppc' = "idle"
    /\ UNCHANGED <<request, files, payload, response, uncaught>>
    /\ UNCHANGED <<arg, pages, ret, raised, temp_pdf_path, tmpFiles, ncalls>>
    /\ UNCHANGED zvars

\* lines 95-101
Post_SendResults ==
    /\ pc = "loop"
    /\ idx > Len(files)
    /\ response' = [status |-> 200, headers |-> JsonHeaders,
                    body |-> [k |-> "results", v |-> results]]
    /\ pc' = "done"
    /\ UNCHANGED <<request, files, idx, results, payload, uncaught>>
    /\ UNCHANGED <<pvars, zvars>>

\* lines 104-106: int(None) for a missing Content-Length, json.loads of a
\* body that is no JSON text
Json_Read ==
    /\ pc = "json"
    /\ IF ~request.length
       THEN pc' = "done" /\ uncaught' = "TypeError" /\ UNCHANGED payload
       ELSE IF request.body.k # "json"
       THEN pc' = "done" /\ uncaught' = "JSONDecodeError" /\ UNCHANGED payload
       ELSE pc' = "action" /\ payload' = request.body.v /\ UNCHANGED uncaught
    /\ UNCHANGED <<request, files, idx, results, response>>
    /\ UNCHANGED <<pvars, zvars>>

\* lines 109-111
Json_Action ==
    /\ pc = "action"
    /\ LET has == PyIn(KAction, payload)
           act == PyGetItem(payload, KAction)
       IN IF ~has.ok
          THEN pc' = "done" /\ uncaught' = has.exc /\ UNCHANGED <<json_data_list, zpc>>
          ELSE IF ~has.v
          THEN pc' = "default" /\ UNCHANGED <<uncaught, json_data_list, zpc>>
          ELSE IF ~act.ok
          THEN pc' = "done" /\ uncaught' = act.exc /\ UNCHANGED <<json_data_list, zpc>>
          ELSE IF act.v.t = "str" /\ act.v.v = DownloadAll
          THEN /\ json_data_list' = PyGet(payload, KJsonData, JArr(<<>>))
               /\ zpc' = "open"
               /\ pc' = "inzip"
               /\ UNCHANGED uncaught
          ELSE pc' = "default" /\ UNCHANGED <<uncaught, json_data_list, zpc>>
    /\ UNCHANGED <<request, files, idx, results, payload, response>>
    /\ UNCHANGED <<zi, filelist, NameToInfo, zraised>>
    /\ UNCHANGED pvars

\* line 111: create_zip_package raised; nothing in do_POST catches it
Json_ZipRaised ==
    /\ pc = "inzip"
    /\ zpc = "raised"
    /\ uncaught' = zraised
    /\ pc' = "done"
    /\ UNCHANGED <<request, files, idx, results, payload, response>>
    /\ UNCHANGED <<pvars, zvars>>

\* lines 113-123: the archive goes out base64-encoded in zip_base64
Json_Respond ==
    /\ pc = "inzip"
    /\ zpc = "returned"
    /\ response' = [status |-> 200, headers |-> JsonHeaders,
                    body |-> [k |-> "zip", success |-> TRUE,
                              zip_base64 |-> [filelist |-> filelist,
                                              NameToInfo |-> NameToInfo]]]
    /\ pc' = "done"
    /\ UNCHANGED <<request, files, idx, results, payload, uncaught>>
    /\ UNCHANGED <<pvars, zvars>>

\* lines 134-137
Post_Default ==
    /\ pc = "default"
    /\ response' = NotFoundResponse
    /\ pc' = "done"
    /\ UNCHANGED <<request, files, idx, results, payload, uncaught>>
    /\ UNCHANGED <<pvars, zvars>>

DoPost ==
    \/ Post_Route \/ Post_Form \/ Post_Next \/ Post_Append \/ Post_Except
    \/ Post_SendResults \/ Json_Read \/ Json_Action \/ Json_ZipRaised
    \/ Json_Respond \/ Post_Default

(***************************************************************************)
(* The requests.                                                           *)
(***************************************************************************)
Commands == {"POST", "OPTIONS", "PUT"}
Paths == {"/convert", "/other"}
Multipart == <<"multipart/form-data", "boundary=X">>
CtHeaders ==
    {<<>>, Multipart, <<"multipart/form-data">>, <<"application/json">>,
     <<"application/json", "charset=utf-8">>, <<"text/plain">>}

ABC == <<"a", " ", "b", " ", "c">>
BatchDocs ==
    {CorruptDoc, PdfDoc(<<>>), PdfDoc(<<StrText(ABC), NoneText>>),
     PdfDoc(<<StrText(ABC), RaiseText>>)}
\* The file parts of an upload: a part without filename, documents of every
\* kind under two names, and every filesystem failure.
BatchFiles ==
    {[filename |-> <<>>, io |-> "ok", doc |-> PdfDoc(<<>>)]}
    \cup {[filename |-> n, io |-> "ok", doc |-> d] : n \in {APdf, BTxt}, d \in BatchDocs}
    \cup {[filename |-> APdf, io |-> f, doc |-> PdfDoc(<<StrText(ABC)>>)] :
            f \in IoKinds \ {"ok"}}
FormBody(fs) == [k |-> "form", files |-> fs]
JsonBody(v) == [k |-> "json", v |-> v]
GarbageBody == [k |-> "garbage"]

DownloadRequest(es) ==
    JObj(<< <<KAction, JStr(DownloadAll)>>, <<KJsonData, JArr(es)>> >>)
Payloads ==
    {DownloadRequest(es) : es \in EntryLists}
    \cup {NullJson, JNum(5), JArr(<<>>), JStr(KAction), JObj(<<>>),
          JObj(<< <<KAction, JStr(KData)>> >>),
          JObj(<< <<KAction, JNum(5)>> >>),
          JObj(<< <<KAction, JStr(DownloadAll)>> >>),
          JObj(<< <<KAction, JStr(DownloadAll)>>, <<KJsonData, NullJson>> >>),
          JObj(<< <<KAction, JStr(DownloadAll)>>, <<KJsonData, DataEmpty>> >>)}

Requests ==
    {[command |-> "POST", path |-> "/convert", ctype |-> Multipart,
      length |-> TRUE, body |-> FormBody(fs)] : fs \in SeqsUpTo(BatchFiles, MaxFiles)}
    \cup {[command |-> "POST", path |-> "/convert", ctype |-> <<"application/json">>,
           length |-> TRUE, body |-> JsonBody(v)] : v \in Payloads}
    \cup [command : Commands, path : Paths, ctype : CtHeaders, length : BOOLEAN,
          body : {GarbageBody, FormBody(<<>>), JsonBody(JObj(<<>>))}]

Init ==
    /\ ConvertIdle /\ ZipIdle
    /\ request \in Requests
    /\ pc = "recv"
    /\ files = <<>> /\ idx = 0 /\ results = <<>>
    /\ payload = NullJson /\ response = NoResponse /\ uncaught = "none"

Next == Dispatch \/ DoPost \/ ProcessPdf \/ CreateZipPackage

Spec == Init /\ [][Next]_vars


(***************************************************************************)
(* The claims.                                                             *)
(***************************************************************************)

\* ---- conversion (SpecConvert) ----

EmptyOrUndefined(text) == text = NoneText \/ text = StrText(<<>>)

PagesNumbered(ps, texts) ==
    /\ Len(ps) = Len(texts)
    /\ \A i \in 1..Len(texts) :
        /\ ps[i].page_number = i
        /\ EmptyOrUndefined(texts[i]) =>
              ps[i].word_count = 0 /\ ps[i].character_count = 0

\* C7: a successful conversion of a document of N pages has total_pages = N
\* and N page records, the i-th with page_number i (so 1..N, no gap, no
\* duplicate), and zero word and character counts for an empty or undefined
\* text; the same for the page list extract_text_from_pdf returns.
C7_PageNumbering ==
    /\ (ppc = "returned" /\ ret.success) =>
          /\ ret.data.total_pages = Len(arg.doc.pages)
          /\ PagesNumbered(ret.data.pages, arg.doc.pages)
    /\ ppc = "x_returned" => PagesNumbered(ret, arg.doc.pages)

C7_Witness ==
    /\ ppc = "returned"
    /\ ret.success
    /\ Len(arg.doc.pages) = 2
    /\ arg.doc.pages[1] = NoneText
    /\ arg.doc.pages[2] = StrText(<<>>)
    /\ ret.data.pages[2].page_number = 2

\* C2: when a process_pdf call ends, by return or by exception, the temporary
\* file it created is gone, unless deleting it failed.
C2_TempFileDeleted ==
    (ppc \in {"returned", "raised"} /\ temp_pdf_path # 0 /\ arg.io # "unlinkFail")
        => temp_pdf_path \notin tmpFiles

\* C3: process_pdf never raises: whatever fails (creating or writing the
\* temporary file, opening the PDF, extracting text), the call returns a
\* record {filename, success: false, error}, and {filename, success: true,
\* data} when nothing fails.
C3_NeverRaises ==
    /\ ppc # "raised"
    /\ ppc = "returned" =>
          /\ ret.filename = arg.filename
          /\ IF ret.success THEN "data" \in DOMAIN ret ELSE "error" \in DOMAIN ret

\* ---- the handler (Spec) ----

IsPostConvert == request.command = "POST" /\ request.path = "/convert"
IsMultipart ==
    /\ IsPostConvert
    /\ request.ctype # <<>>
    /\ ParseHeader(request.ctype) = "multipart/form-data"
IsJson ==
    /\ IsPostConvert
    /\ request.ctype # <<>>
    /\ ParseHeader(request.ctype) = "application/json"
WellFormedMultipart ==
    IsMultipart /\ HasBoundary(request.ctype) /\ request.body.k = "form"
WellFormedJson == IsJson /\ request.length /\ request.body.k = "json"

NamedParts(fs) == SelectSeq(fs, LAMBDA f : f.filename # <<>>)

\* What the conversion of one file part comes to, whatever else is in the batch.
OutcomeOf(f) ==
    CASE f.io = "createFail" -> FailureOutcome(f.filename, "create")
      [] f.io = "writeFail" -> FailureOutcome(f.filename, "write")
      [] f.doc.k = "corrupt" -> FailureOutcome(f.filename, "corrupt")
      [] \E j \in 1..Len(f.doc.pages) : f.doc.pages[j] = RaiseText ->
            FailureOutcome(f.filename, "extract")
      [] OTHER ->
            [filename |-> f.filename, success |-> TRUE,
             data |-> [filename |-> f.filename,
                       total_pages |-> Len(f.doc.pages),
                       pages |-> [j \in 1..Len(f.doc.pages) |->
                                    [page_number |-> j,
                                     content |-> f.doc.pages[j],
                                     word_count |->
                                        IF Truthy(f.doc.pages[j])
                                        THEN SplitLen(f.doc.pages[j].s) ELSE 0,
                                     character_count |->
                                        IF Truthy(f.doc.pages[j])
                                        THEN Len(f.doc.pages[j].s) ELSE 0]]]]

\* C1: a multipart upload is answered 200 with one outcome per file part that
\* has a filename, in upload order; each outcome is what that file alone
\* comes to (a failing file gives {filename, success: false, error} at its
\* place and changes nothing for the others).
C1_PerFileIsolation ==
    (pc = "done" /\ WellFormedMultipart) =>
        /\ uncaught = "none"
        /\ response.status = 200
        /\ response.body.k = "results"
        /\ LET named == NamedParts(request.body.files)
           IN /\ Len(response.body.v) = Len(named)
              /\ \A i \in 1..Len(named) : response.body.v[i] = OutcomeOf(named[i])

C1_Witness ==
    /\ pc = "done"
    /\ WellFormedMultipart
    /\ Len(request.body.files) = 3
    /\ request.body.files[1].doc = PdfDoc(<<StrText(ABC), NoneText>>)
    /\ request.body.files[2].doc = CorruptDoc
    /\ request.body.files[2].filename # <<>>
    /\ request.body.files[3].io = "writeFail"
    /\ response.status = 200
    /\ Len(response.body.v) = 3
    /\ response.body.v[1].success
    /\ ~response.body.v[2].success
    /\ ~response.body.v[3].success

\* C4: every well-formed request to /convert (a multipart POST, a JSON POST
\* with a parseable body) is answered 200: no 404, no other status, no
\* exception instead of an answer.
C4_StatusPolicy ==
    (pc = "done" /\ (WellFormedMultipart \/ WellFormedJson)) =>
        uncaught = "none" /\ response.status = 200

\* C5: an OPTIONS request to /convert is answered 200 with an empty body and
\* the three CORS headers.
C5_Preflight ==
    (pc = "done" /\ request.command = "OPTIONS" /\ request.path = "/convert")
        => response = PreflightResponse

StructurallyInvalid ==
    /\ IsPostConvert
    /\ \/ request.ctype = <<>>
       \/ ParseHeader(request.ctype) \notin {"multipart/form-data", "application/json"}
       \/ IsMultipart /\ ~HasBoundary(request.ctype)
       \/ IsJson /\ request.length /\ request.body.k # "json"

\* C6: a POST to /convert with no Content-Type, with a content type that is
\* neither multipart/form-data nor application/json, or with a malformed
\* body gets 404 'Not Found'; no exception leaves the handler.
C6_InvalidPostNotFound ==
    (pc = "done" /\ StructurallyInvalid) =>
        uncaught = "none" /\ response = NotFoundResponse

\* ---- the packager ----

IsObj(x) == x.t = "obj"
HasKey(x, key) == IsObj(x) /\ \E i \in 1..Len(x.v) : x.v[i][1] = key
Field(x, key) == x.v[CHOOSE i \in 1..Len(x.v) : x.v[i][1] = key][2]
HasBothKeys(x) == HasKey(x, KFilename) /\ HasKey(x, KData)

IsDownloadOfList ==
    /\ WellFormedJson
    /\ HasKey(request.body.v, KAction)
    /\ Field(request.body.v, KAction) = JStr(DownloadAll)
    /\ HasKey(request.body.v, KJsonData)
    /\ Field(request.body.v, KJsonData).t = "arr"
RequestedEntries == Field(request.body.v, KJsonData).v

\* C8: for every json_data list the archive gets one member per entry that
\* has both 'filename' and 'data', in list order, and nothing for the other
\* entries; no entry raises or stops the later ones, and the answer is 200
\* {success: true, zip_base64}.
C8_SkipsMalformed ==
    (pc = "done" /\ IsDownloadOfList) =>
        /\ uncaught = "none"
        /\ response.status = 200
        /\ response.body.k = "zip"
        /\ response.body.success
        /\ LET kept == SelectSeq(RequestedEntries, HasBothKeys)
               members == response.body.zip_base64.filelist
           IN /\ Len(members) = Len(kept)
              /\ \A i \in 1..Len(kept) :
                    members[i].content = Dumps(Field(kept[i], KData), 0)

\* The reader's side of the round trip: a member is found in the archive by
\* its name, and its text is read back token by token (json.loads).
RECURSIVE SkipWs(_, _)
SkipWs(toks, p) ==
    IF p <= Len(toks) /\ toks[p].tk = "nl" THEN SkipWs(toks, p + 1) ELSE p

RECURSIVE ParseValue(_, _)
RECURSIVE ParseArr(_, _, _)
RECURSIVE ParseObj(_, _, _)

ParseArr(toks, p0, acc) ==
    LET p == SkipWs(toks, p0)
    IN CASE toks[p].tk = "]" -> [v |-> JArr(acc), p |-> p + 1]
         [] toks[p].tk = "," -> ParseArr(toks, p + 1, acc)
         [] OTHER -> LET r == ParseValue(toks, p)
                     IN ParseArr(toks, r.p, Append(acc, r.v))

ParseObj(toks, p0, acc) ==
    LET p == SkipWs(toks, p0)
    IN CASE toks[p].tk = "}" -> [v |-> JObj(acc), p |-> p + 1]
         [] toks[p].tk = "," -> ParseObj(toks, p + 1, acc)
         [] OTHER -> LET r == ParseValue(toks, p + 2)
                     IN ParseObj(toks, r.p, Append(acc, <<toks[p].s, r.v>>))

ParseValue(toks, p0) ==
    LET p == SkipWs(toks, p0)
    IN CASE toks[p].tk = "null" -> [v |-> NullJson, p |-> p + 1]
         [] toks[p].tk = "num" -> [v |-> JNum(toks[p].n), p |-> p + 1]
         [] toks[p].tk = "str" -> [v |-> JStr(toks[p].s), p |-> p + 1]
         [] toks[p].tk = "[" -> ParseArr(toks, p + 1, <<>>)
         [] toks[p].tk = "{" -> ParseObj(toks, p + 1, <<>>)

Loads(toks) == ParseValue(toks, 1).v

\* C10: unzipping the archive of a download_all answer and deserializing the
\* member of each packaged entry gives back that entry's data, also when
\* two entries come to the same member name.
C10_RoundTrip ==
    (pc = "done" /\ IsDownloadOfList /\ response.status = 200) =>
        LET archive == response.body.zip_base64
        IN \A i \in 1..Len(RequestedEntries) :
              LET e == RequestedEntries[i]
              IN HasBothKeys(e) =>
                    LET name == MemberName(Field(e, KFilename).v)
                    IN /\ name \in DOMAIN archive.NameToInfo
                       /\ Loads(archive.filelist[archive.NameToInfo[name]].content)
                             = Field(e, KData)

Occurrences(s, pat) == {i \in 1..Len(s) : StartsAt(s, i, pat)}

\* name is s with every occurrence of .pdf turned into .json and every other
\* character kept, in order
RenamedBySubstring(s, name) ==
    LET occ == Occurrences(s, DotPdf)
        shift(i) == Cardinality({j \in occ : j < i})
        covered(i) == \E j \in occ : j <= i /\ i < j + Len(DotPdf)
    IN /\ Len(name) = Len(s) + Cardinality(occ)
       /\ \A j \in occ : StartsAt(name, j + shift(j), DotJson)
       /\ \A i \in 1..Len(s) : ~covered(i) => name[i + shift(i)] = s[i]

\* C9: the member name of a packaged entry is its filename with the substring
\* '.pdf' replaced by '.json' wherever it occurs: 'r.pdf' gives 'r.json', and
\* a filename without '.pdf' is the member name as it is.
C9_MemberNaming ==
    zpc = "returned" =>
        LET kept == SelectSeq(json_data_list.v, HasBothKeys)
        IN /\ Len(filelist) = Len(kept)
           /\ \A i \in 1..Len(kept) :
                LET s == Field(kept[i], KFilename).v
                IN /\ RenamedBySubstring(s, filelist[i].name)
                   /\ ~Contains(s, DotPdf) => filelist[i].name = s
                   /\ s = <<"r">> \o DotPdf => filelist[i].name = <<"r">> \o DotJson

C9_Witness ==
    /\ zpc = "returned"
    /\ Len(filelist) = 1
    /\ json_data_list.v[1] = Entry(<<"r">> \o DotPdf \o DotPdf, DataOnePage)
    /\ filelist[1].name = <<"r">> \o DotJson \o DotJson

=============================================================================
